---- MODULE Spec2Model ----
(***************************************************************************)
(* Model of the serve-mode plugin of vite-plugin-react-swc: the            *)
(* disk-backed, version-gated transform cache (configResolved) and the     *)
(* per-file transform pipeline (transform).                                *)
(*                                                                         *)
(* Strings are sequences of one-character strings; a source text and a     *)
(* compiled output are sequences of lines.                                 *)
(***************************************************************************)
EXTENDS Integers, Sequences, FiniteSets, Bags, TLC

\* ------------------------------------------------------------ bounds
MaxTransforms == 2      \* transform calls, over all processes
MaxInits == 2           \* configResolved calls per process
MaxRestarts == 1        \* process restarts
MaxInflight == 2        \* transform calls suspended on the transformer
MaxLines == 2           \* lines of a source text (pure-function checks)
MaxFrags == 3           \* fragments of a diagnostic message

\* ------------------------------------------------------------ strings
None == "none"

Digits == {"0", "1", "2", "3", "4", "5", "6", "7", "8", "9"}

\* String.prototype.endsWith
EndsWith(s, suf) ==
  /\ Len(suf) <= Len(s)
  /\ SubSeq(s, Len(s) - Len(suf) + 1, Len(s)) = suf

\* String.prototype.indexOf, 1-based; 0 when absent (the code's -1)
IndexOf(s, sub) ==
  LET hits == {i \in 1..(Len(s) - Len(sub) + 1) : SubSeq(s, i, i + Len(sub) - 1) = sub}
  IN IF hits = {} THEN 0 ELSE CHOOSE i \in hits : \A j \in hits : i <= j

\* String.prototype.includes
Includes(s, sub) == IndexOf(s, sub) # 0

\* String.prototype.replace(/x/g, y) for a one-character pattern
ReplaceAll(s, from, to) == [i \in 1..Len(s) |-> IF s[i] = from THEN to ELSE s[i]]

\* the segments of a path between "/" separators (empty segments dropped)
RECURSIVE Segments(_)
Segments(p) ==
  IF p = <<>> THEN <<>>
  ELSE LET cut == IndexOf(p, <<"/">>)
       IN IF cut = 0 THEN <<p>>
          ELSE IF cut = 1 THEN Segments(Tail(p))
          ELSE <<SubSeq(p, 1, cut - 1)>> \o Segments(SubSeq(p, cut + 1, Len(p)))

RECURSIVE JoinSegs(_)
JoinSegs(segs) ==
  IF segs = <<>> THEN <<>>
  ELSE IF Len(segs) = 1 THEN segs[1]
  ELSE segs[1] \o <<"/">> \o JoinSegs(Tail(segs))

RECURSIVE CommonPrefix(_, _)
CommonPrefix(a, b) ==
  IF a = <<>> \/ b = <<>> \/ a[1] # b[1] THEN 0
  ELSE 1 + CommonPrefix(Tail(a), Tail(b))

\* path.relative(from, to) for absolute POSIX paths
Relative(from, to) ==
  LET f == Segments(from)
      t == Segments(to)
      n == CommonPrefix(f, t)
      ups == [i \in 1..(Len(f) - n) |-> <<".", ".">>]
  IN JoinSegs(ups \o SubSeq(t, n + 1, Len(t)))

\* ------------------------------------------------------------ constants of the plugin
runtimePublicPath == <<"/", "@", "r", "e", "a", "c", "t", "-", "r", "e", "f", "r", "e", "s", "h">>

PLUGIN_CACHE_VERSION == 1

MetadataName == <<"_", "m", "e", "t", "a", "d", "a", "t", "a", ".", "j", "s", "o", "n">>

DotJson == <<".", "j", "s", "o", "n">>

NodeModules == <<"n", "o", "d", "e", "_", "m", "o", "d", "u", "l", "e", "s">>

\* the registration marker the injection step looks for
Marker == "$RefreshReg$"

\* the diagnostic-frame delimiter of the transformer's messages: the box-drawing
\* characters U+256D and U+2500, then "["
FrameDelim == <<"U+256D", "U+2500", "[">>

\* faulty variant: the version string leaves the transformer's version out
CompositeVersionFormatOnly(swcVersion) == <<PLUGIN_CACHE_VERSION, "-", "">>

\* `${PLUGIN_CACHE_VERSION}-${swcVersion}`
CompositeVersion(swcVersion) == <<PLUGIN_CACHE_VERSION, "-", swcVersion>>

\* ------------------------------------------------------------ eligibility and key
\* the dialect chosen from the file id; None when the file is not handled
Parser(id) ==
  IF EndsWith(id, <<".", "t", "s", "x">>) THEN "typescript-tsx"
  ELSE IF EndsWith(id, <<".", "t", "s">>) THEN "typescript"
  ELSE IF EndsWith(id, <<".", "j", "s", "x">>) THEN "ecmascript-jsx"
  ELSE None

IsVendored(id) == Includes(id, NodeModules)

\* faulty variant: the vendored-origin test is missing
SkippedKindOnly(id) == Parser(id) = None

Skipped(id) == IsVendored(id) \/ Parser(id) = None

\* faulty variant: the key ignores the target
SsrSuffixNone(ssr) == <<>>

SsrSuffix(ssr) == IF ssr THEN <<"-", "s", "r", "r">> ELSE <<>>

\* the name of the entry file, which is also the key of the in-memory cache
FileCachePath(rt, id, ssr) ==
  ReplaceAll(Relative(rt, id), "/", "|") \o SsrSuffix(ssr) \o DotJson

\* ------------------------------------------------------------ the cache fast path
\* faulty variant: an entry of the key is served whatever input it was compiled from
HitTestAny(entry, code) == TRUE

HitTest(entry, code) == entry.input = code

IsHit(c, key, code) == key \in DOMAIN c /\ HitTest(c[key], code)

\* ------------------------------------------------------------ error position
RECURSIVE DigitRun(_, _)
DigitRun(s, i) ==
  IF i > Len(s) THEN 0
  ELSE IF s[i] \notin Digits THEN 0
  ELSE 1 + DigitRun(s, i + 1)

\* whether /:(\d+):(\d+)]/ matches s starting at position i
MatchesAt(s, i) ==
  /\ s[i] = ":"
  /\ LET n1 == DigitRun(s, i + 1)
     IN /\ n1 >= 1
        /\ i + 1 + n1 <= Len(s)
        /\ s[i + 1 + n1] = ":"
        /\ LET n2 == DigitRun(s, i + 2 + n1)
           IN /\ n2 >= 1
              /\ i + 2 + n1 + n2 <= Len(s)
              /\ s[i + 2 + n1 + n2] = "]"

\* String.prototype.match(/:(\d+):(\d+)]/): <<>> for null, else <<group 1, group 2>>
RegexMatch(s) ==
  LET starts == {i \in 1..Len(s) : MatchesAt(s, i)}
  IN IF starts = {} THEN <<>>
     ELSE LET i == CHOOSE x \in starts : \A y \in starts : x <= y
              n1 == DigitRun(s, i + 1)
              n2 == DigitRun(s, i + 2 + n1)
          IN <<SubSeq(s, i + 1, i + n1), SubSeq(s, i + 2 + n1, i + 1 + n1 + n2)>>

\* faulty variant: the search for the position does not depend on the delimiter
FileStartAlways(message) == 1

\* where the catch block starts its search: the index of the delimiter
FileStartIndex(message) == IndexOf(message, FrameDelim)

\* the catch block: the error that transform rethrows (line and column are the
\* matched digit strings; <<>> when the property is not set)
Rethrown(message) ==
  LET fileStartIndex == FileStartIndex(message)
      match == IF fileStartIndex # 0
               THEN RegexMatch(SubSeq(message, fileStartIndex, Len(message)))
               ELSE <<>>
  IN IF match # <<>>
     THEN [message |-> message, line |-> match[1], column |-> match[2]]
     ELSE [message |-> message, line |-> <<>>, column |-> <<>>]

\* ------------------------------------------------------------ the opaque transformer
\* A source text is a sequence of lines, each one of:
\*   "comp"   a component with markup (registered for refresh when enabled)
\*   "lit"    a statement whose text holds the marker token, e.g. in a string
\*   "plain"  any other statement
\*   "bad"    a syntax error
LineKinds == {"comp", "lit", "plain", "bad"}

DigitOf(i) == <<"1", "2", "3", "4", "5", "6", "7", "8", "9">>[i]

\* the first line the chosen parser rejects (0: none): a syntax error, or markup
\* given to the parser without markup support
FirstRejected(code, parser) ==
  LET bad == {i \in 1..Len(code) :
                \/ code[i] = "bad"
                \/ code[i] = "comp" /\ parser = "typescript"}
  IN IF bad = {} THEN 0 ELSE CHOOSE i \in bad : \A j \in bad : i <= j

CompiledLine(kind) ==
  IF kind = "comp" THEN <<"_c = App = () => jsxDEV()">>
  ELSE IF kind = "lit" THEN <<"const s = ", Marker>>
  ELSE <<"stmt">>

RECURSIVE CompIndexes(_, _)
CompIndexes(code, i) ==
  IF i > Len(code) THEN <<>>
  ELSE (IF code[i] = "comp" THEN <<i>> ELSE <<>>) \o CompIndexes(code, i + 1)

\* sequence of mapping segments, one per generated line, joined with ";"
RECURSIVE JoinMappings(_)
JoinMappings(srcLines) ==
  IF srcLines = <<>> THEN <<>>
  ELSE IF Len(srcLines) = 1 THEN <<DigitOf(srcLines[1])>>
  ELSE <<DigitOf(srcLines[1]), ";">> \o JoinMappings(Tail(srcLines))

\* transform(code, {filename: id, jsc: {parser, transform: {react: {refresh}}}}):
\* a deterministic function of its arguments
Swc(code, id, parser, refresh) ==
  LET rejected == FirstRejected(code, parser)
      regs == IF refresh THEN CompIndexes(code, 1) ELSE <<>>
      body == [i \in 1..Len(code) |-> CompiledLine(code[i])]
      tail == [j \in 1..Len(regs) |-> <<Marker, "(_c, App)">>]
      srcLines == [i \in 1..Len(code) |-> i] \o regs
  IN IF rejected # 0
     THEN [ok |-> FALSE,
           message |-> <<"x", " ">> \o FrameDelim \o id
                         \o <<":", DigitOf(rejected), ":", "1", "]">>]
     ELSE [ok |-> TRUE,
           code |-> body \o tail,
           map |-> <<"{", <<id>>, JoinMappings(srcLines), "}">>]

\* JSON.parse(result.map)
ParseMap(json) == [sources |-> json[2], mappings |-> json[3]]

\* ------------------------------------------------------------ live-reload injection
CodeIncludes(code, token) ==
  \E i \in 1..Len(code) : \E j \in 1..Len(code[i]) : code[i][j] = token

\* the lines of the template before `${result.code}`
Header(id) ==
  << <<"import * as RefreshRuntime from ">> \o runtimePublicPath,
     <<"  ">>,
     <<"  if (!window.", Marker, ") throw new Error(preamble was not loaded)">>,
     <<"  const prevRefreshReg = window.", Marker>>,
     <<"  const prevRefreshSig = window.$RefreshSig$">>,
     <<"  window.", Marker, " = RefreshRuntime.getRefreshReg(">> \o id \o <<")">>,
     <<"  window.$RefreshSig$ = RefreshRuntime.createSignatureFunctionForTransform">>,
     <<"  ">> >>

\* the lines of the template after `${result.code}`
Footer ==
  << <<"  ">>,
     <<"  window.", Marker, " = prevRefreshReg">>,
     <<"  window.$RefreshSig$ = prevRefreshSig">>,
     <<"  import.meta.hot.accept((nextExports) => {">>,
     <<"  if (!nextExports) return">>,
     <<"  import(import.meta.url).then((current) => {">>,
     <<"    const invalidateMessage = validateRefreshBoundaryAndEnqueueUpdate()">>,
     <<"    if (invalidateMessage) import.meta.hot.invalidate(invalidateMessage)">>,
     <<"  })">>,
     <<"})">>,
     <<"  ">> >>

\* the template literal: `${result.code}` follows two spaces on the header's last line
Wrapped(code, id) ==
  Header(id) \o << <<"  ">> \o code[1] >> \o Tail(code) \o Footer

\* faulty variant: one separator short
MappingPrefixShort == <<";", ";", ";", ";", ";", ";", ";">>

\* the literal ";;;;;;;;" put in front of sourceMap.mappings
MappingPrefix == <<";", ";", ";", ";", ";", ";", ";", ";">>

\* whether the injection step rewrites the output
InjectionTest(code, ssr) == CodeIncludes(code, Marker)

\* lines 150-186 for a successful result: the {code, map} returned and stored
Finish(result, id, ssr) ==
  LET sourceMap == ParseMap(result.map)
  IN IF InjectionTest(result.code, ssr)
     THEN [code |-> Wrapped(result.code, id),
           map |-> [sourceMap EXCEPT !.mappings = MappingPrefix \o @]]
     ELSE [code |-> result.code, map |-> sourceMap]

\* whether an output carries the live-reload wrapper: it starts with the import
\* of the runtime and ends with the hot-accept handler
Instrumented(code) ==
  /\ Len(code) > Len(Footer)
  /\ code[1] = Header(<<>>)[1]
  /\ SubSeq(code, Len(code) - Len(Footer) + 1, Len(code)) = Footer

\* the groups of a mappings string between ";" separators
RECURSIVE MappingLines(_)
MappingLines(m) ==
  LET cut == IndexOf(m, <<";">>)
  IN IF cut = 0 THEN <<m>>
     ELSE <<SubSeq(m, 1, cut - 1)>> \o MappingLines(SubSeq(m, cut + 1, Len(m)))

\* the source positions a map gives for generated line n (<<>>: unmapped)
Resolve(map, n) ==
  LET ls == MappingLines(map.mappings)
  IN IF n \in 1..Len(ls) THEN ls[n] ELSE <<>>

\* ------------------------------------------------------------ entry files
\* JSON.stringify(entry)
Stringify(entry) == <<"{", entry.input, entry.code, entry.map, "}">>

\* a measure of the length of the serialized text
RECURSIVE SumLens(_)
SumLens(ls) == IF ls = <<>> THEN 0 ELSE Len(ls[1]) + SumLens(Tail(ls))

JsonSize(entry) ==
  2 + Len(entry.input) + SumLens(entry.code) + Len(entry.map.mappings)
    + SumLens(entry.map.sources)

WellFormed(data) == Len(data) = 5 /\ data[1] = "{" /\ data[5] = "}"

\* JSON.parse(json) of an entry file; JSON.parse throws when ~WellFormed(data)
ParseEntry(data) == [input |-> data[2], code |-> data[3], map |-> data[4]]

\* ------------------------------------------------------------ inputs
Roots == {<<"/", "p">>, <<"/", "q">>}

SwcVersions == {"1.3.42", "1.3.43"}

\* project-relative paths: a/b.tsx, e.js, node_modules/m.tsx
RelPaths ==
  { <<"a", "/", "b", ".", "t", "s", "x">>,
    <<"e", ".", "j", "s">>,
    NodeModules \o <<"/", "m", ".", "t", "s", "x">> }

\* more paths, for the checks of the key and of the dialect: a|b.tsx, c.ts, d.jsx
MorePaths ==
  RelPaths \cup
  { <<"a", "|", "b", ".", "t", "s", "x">>,
    <<"c", ".", "t", "s">>,
    <<"d", ".", "j", "s", "x">> }

IdOf(rt, rel) == rt \o <<"/">> \o rel

Ids(rt) == {IdOf(rt, rel) : rel \in RelPaths}

MoreIds(rt) == {IdOf(rt, rel) : rel \in MorePaths}

AllIds == UNION {MoreIds(rt) : rt \in Roots}

Texts == {<<"comp">>, <<"lit">>, <<"bad">>}

\* ------------------------------------------------------------ state
VARIABLES
  cfg,        \* the resolved configuration the host passes: [root, swcVersion]
  root,       \* module variable root (<<>> until configResolved sets it)
  cache,      \* module variable cache: entry file name -> CacheEntry
  init,       \* the latest configResolved call: "idle", "restoring", "done", "failed"
  ready,      \* the host serves files: its first configResolved call succeeded
  gen,        \* number of configResolved calls of this process
  reads,      \* restore reads in flight: [f, gen]
  inflight,   \* transform calls suspended on the transformer (a bag)
  writes,     \* promises.writeFile calls in flight
  dir,        \* the cache directory on disk: [exists, files: name -> [data, size, ver]]
  nT,         \* transform calls so far
  restarts,   \* processes started after the first
  ret,        \* what the last hook call to finish returned or threw
  producers   \* entry file name -> the targets of the compiles written to it

vars == <<cfg, root, cache, init, ready, gen, reads, inflight, writes, dir, nT,
          restarts, ret, producers>>

procVars == <<root, cache, init, ready, gen, reads, inflight, nT>>

EmptyMap == <<>>

Put(f, k, v) == [x \in DOMAIN f \cup {k} |-> IF x = k THEN v ELSE f[x]]

NoOut == [code |-> <<>>, map |-> [sources |-> <<>>, mappings |-> <<>>]]

NoErr == [message |-> <<>>, line |-> <<>>, column |-> <<>>]

\* a hook call's outcome; lost counts what the call discarded (entry files
\* deleted, transform calls ended)
Ret(kind, id, code, ssr, key, out, err, lost) ==
  [kind |-> kind, id |-> id, code |-> code, ssr |-> ssr, key |-> key,
   out |-> out, err |-> err, lost |-> lost]

HookRet(kind) == Ret(kind, <<>>, <<>>, FALSE, <<>>, NoOut, NoErr, 0)

MetadataFile(version) == [data |-> <<"{", version, "}">>, size |-> 3]

\* JSON.parse(content).version of _metadata.json
MetadataVersion(file) == file.data[2]

Init ==
  /\ cfg = [root |-> <<"/", "p">>, swcVersion |-> "1.3.42"]
  /\ root = <<>>
  /\ cache = EmptyMap
  /\ init = "idle"
  /\ ready = FALSE
  /\ gen = 0
  /\ reads = {}
  /\ inflight = EmptyBag
  /\ writes = {}
  /\ dir = [exists |-> FALSE, files |-> EmptyMap]
  /\ nT = 0
  /\ restarts = 0
  /\ ret = HookRet("start")
  /\ producers = EmptyMap

\* ------------------------------------------------------------ configResolved
\* readdirSync(cachePath).filter(f => f.endsWith(".json") && f !== "_metadata.json")
EntryNames(files) ==
  {f \in DOMAIN files : EndsWith(f, DotJson) /\ f # MetadataName}

\* faulty variant: the entry is keyed by the file name without its extension
RestoreKeyStem(f) == SubSeq(f, 1, Len(f) - Len(DotJson))

\* the key under which a restored entry file is put in the cache
RestoreKey(f) == f

\* faulty variant: the directory is not removed
WipedNothing(files) == files

\* rmSync(cachePath, {recursive: true, force: true}); mkdirSync(cachePath)
Wiped(files) == EmptyMap

\* writeFileSync(metadataPath, JSON.stringify({version}))
WithMetadata(files, version) == Put(files, MetadataName, MetadataFile(version))

\* the synchronous part of configResolved, up to its await or its end
ConfigResolved ==
  /\ gen < MaxInits
  /\ init # "restoring"
  /\ gen = 0 \/ ready
  /\ gen' = gen + 1
  /\ UNCHANGED <<cfg, inflight, writes, nT, restarts>>
  /\ IF Cardinality(DOMAIN cache) > 0
     THEN /\ ret' = HookRet("config-noop")
          /\ UNCHANGED <<root, cache, init, ready, reads, dir, producers>>
     ELSE
       LET version == CompositeVersion(cfg.swcVersion)
           hasMeta == dir.exists /\ MetadataName \in DOMAIN dir.files
       IN /\ root' = cfg.root
          /\ cache' = cache
          /\ IF hasMeta /\ MetadataVersion(dir.files[MetadataName]) = version
             THEN LET names == EntryNames(dir.files)
                  IN IF names = {}
                     THEN /\ dir' = [dir EXCEPT !.files = WithMetadata(@, version)]
                          /\ init' = "done"
                          /\ ready' = TRUE
                          /\ ret' = HookRet("config-restored")
                          /\ UNCHANGED <<reads, producers>>
                     ELSE /\ reads' = reads \cup {[f |-> f, gen |-> gen + 1] : f \in names}
                          /\ init' = "restoring"
                          /\ UNCHANGED <<dir, ready, ret, producers>>
             ELSE IF hasMeta
             THEN /\ dir' = [exists |-> TRUE,
                             files |-> WithMetadata(Wiped(dir.files), version)]
                  /\ producers' = [f \in DOMAIN Wiped(dir.files) \cap DOMAIN producers
                                     |-> producers[f]]
                  /\ init' = "done"
                  /\ ready' = TRUE
                  /\ ret' = [HookRet("config-wiped") EXCEPT
                               !.lost = Cardinality(EntryNames(dir.files))]
                  /\ UNCHANGED reads
             ELSE /\ dir' = [exists |-> TRUE, files |-> WithMetadata(dir.files, version)]
                  /\ init' = "done"
                  /\ ready' = TRUE
                  /\ ret' = HookRet("config-created")
                  /\ UNCHANGED <<reads, producers>>

\* one restore read settles: promises.readFile, JSON.parse, cache.set; the read
\* that settles last lets Promise.all resolve and configResolved run to its end
RestoreRead(r) ==
  /\ r \in reads
  /\ reads' = reads \ {r}
  /\ UNCHANGED <<cfg, root, gen, inflight, writes, nT, restarts, producers>>
  /\ LET data == dir.files[r.f].data
         awaited == init = "restoring" /\ r.gen = gen
         last == \A q \in reads' : q.gen # r.gen
     IN IF ~WellFormed(data)
        THEN /\ cache' = cache
             /\ dir' = dir
             /\ ready' = ready
             /\ init' = IF awaited THEN "failed" ELSE init
             /\ ret' = IF awaited THEN HookRet("config-error") ELSE ret
        ELSE /\ cache' = Put(cache, RestoreKey(r.f), ParseEntry(data))
             /\ IF awaited /\ last
                THEN /\ dir' = [dir EXCEPT !.files =
                                  WithMetadata(@, CompositeVersion(cfg.swcVersion))]
                     /\ init' = "done"
                     /\ ready' = TRUE
                     /\ ret' = HookRet("config-restored")
                ELSE UNCHANGED <<dir, init, ready, ret>>

\* ------------------------------------------------------------ transform
\* transform up to its await: eligibility, key, cache fast path
TransformCallUpTo(limit, id, code, ssr) ==
  /\ ready
  /\ nT < limit
  /\ nT' = nT + 1
  /\ UNCHANGED <<cfg, root, cache, init, ready, gen, reads, writes, dir, restarts,
                 producers>>
  /\ IF Skipped(id)
     THEN /\ ret' = Ret("skip", id, <<>>, FALSE, <<>>, NoOut, NoErr, 0)
          /\ UNCHANGED inflight
     ELSE LET fileCachePath == FileCachePath(root, id, ssr)
          IN IF IsHit(cache, fileCachePath, code)
             THEN /\ ret' = Ret("hit", id, code, ssr, fileCachePath,
                                [code |-> cache[fileCachePath].code,
                                 map |-> cache[fileCachePath].map], NoErr, 0)
                  /\ UNCHANGED inflight
             ELSE /\ BagCardinality(inflight) < MaxInflight
                  /\ inflight' = inflight (+) SetToBag(
                       {[id |-> id, code |-> code, ssr |-> ssr, key |-> fileCachePath]})
                  /\ UNCHANGED ret

\* a call, while the session's budget of calls lasts
TransformCall(id, code, ssr) == TransformCallUpTo(MaxTransforms, id, code, ssr)

\* faulty variant: the entry file is written on the failure path as well
SettleStoring(t, result) ==
  /\ BagIn(t, inflight)
  /\ inflight' = inflight (-) SetToBag({t})
  /\ UNCHANGED <<cfg, root, cache, init, ready, gen, reads, dir, nT, restarts,
                 producers>>
  /\ writes' = writes \cup
       {[key |-> t.key, data |-> <<>>, size |-> 0, ssr |-> t.ssr, phase |-> "open",
         ver |-> cfg.swcVersion]}
  /\ ret' = IF ~result.ok
            THEN Ret("error", t.id, t.code, t.ssr, t.key, NoOut,
                     Rethrown(result.message), 0)
            ELSE Ret("compiled", t.id, t.code, t.ssr, t.key,
                     Finish(result, t.id, t.ssr), NoErr, 0)

\* the awaited transformer call settles with result: the catch block, or
\* injection, the cache write and return
Settle(t, result) ==
  /\ BagIn(t, inflight)
  /\ inflight' = inflight (-) SetToBag({t})
  /\ UNCHANGED <<cfg, root, cache, init, ready, gen, reads, dir, nT, restarts,
                 producers>>
  /\ IF ~result.ok
     THEN /\ ret' = Ret("error", t.id, t.code, t.ssr, t.key, NoOut,
                        Rethrown(result.message), 0)
          /\ UNCHANGED writes
     ELSE LET out == Finish(result, t.id, t.ssr)
              entry == [input |-> t.code, code |-> out.code, map |-> out.map]
          IN /\ writes' = writes \cup
                  {[key |-> t.key, data |-> Stringify(entry),
                    size |-> JsonSize(entry), ssr |-> t.ssr, phase |-> "open",
                    ver |-> cfg.swcVersion]}
             /\ ret' = Ret("compiled", t.id, t.code, t.ssr, t.key, out, NoErr, 0)

\* the options transform passes select the parser from the id and refresh = !ssr
SwcResult(t) == Swc(t.code, t.id, Parser(t.id), ~t.ssr)

TransformResume(t) == Settle(t, SwcResult(t))

\* ------------------------------------------------------------ promises.writeFile
\* the write opens its file, which truncates it (ver notes, for the proofs only,
\* the transformer version of the session the write belongs to)
WriteOpen(w) ==
  /\ w \in writes
  /\ w.phase = "open"
  /\ dir.exists
  /\ dir' = [dir EXCEPT !.files = Put(@, w.key, [data |-> <<>>, size |-> 0, ver |-> w.ver])]
  /\ writes' = (writes \ {w}) \cup {[w EXCEPT !.phase = "write"]}
  /\ UNCHANGED <<procVars, cfg, restarts, ret, producers>>

\* the write puts its bytes at the start of the file: bytes of a longer text
\* written meanwhile by another call stay behind them
WriteData(w) ==
  /\ w \in writes
  /\ w.phase = "write"
  /\ LET old == dir.files[w.key]
         new == IF old.size > w.size
                THEN [data |-> w.data \o <<"...">>, size |-> old.size, ver |-> w.ver]
                ELSE [data |-> w.data, size |-> w.size, ver |-> w.ver]
     IN dir' = [dir EXCEPT !.files = Put(@, w.key, new)]
  /\ writes' = writes \ {w}
  /\ producers' = Put(producers, w.key,
       (IF w.key \in DOMAIN producers THEN producers[w.key] ELSE {}) \cup {w.ssr})
  /\ UNCHANGED <<procVars, cfg, restarts, ret>>

\* the process ends (all it holds in memory and all its pending work is lost) and
\* the next one starts
NewProcess(c) ==
  /\ cfg' = c
  /\ root' = <<>>
  /\ cache' = EmptyMap
  /\ init' = "idle"
  /\ ready' = FALSE
  /\ gen' = 0
  /\ reads' = {}
  /\ inflight' = EmptyBag
  /\ writes' = {}
  /\ nT' = nT
  /\ restarts' = restarts + 1

\* the write fails (an I/O error). Its promise has no rejection handler: the
\* runtime either only warns, or ends the process with the unhandled rejection
WriteFail(w, fatal) ==
  /\ w \in writes
  /\ IF fatal
     THEN /\ restarts < MaxRestarts
          /\ NewProcess(cfg)
          /\ ret' = Ret("unhandled-rejection", <<>>, <<>>, FALSE, <<>>, NoOut, NoErr,
                        BagCardinality(inflight))
          /\ UNCHANGED <<dir, producers>>
     ELSE /\ writes' = writes \ {w}
          /\ UNCHANGED <<procVars, cfg, dir, restarts, ret, producers>>

Restart(c) ==
  /\ restarts < MaxRestarts
  /\ NewProcess(c)
  /\ ret' = HookRet("start")
  /\ UNCHANGED <<dir, producers>>

Next ==
  \/ ConfigResolved
  \/ \E r \in reads : RestoreRead(r)
  \/ \E id \in Ids(cfg.root), code \in Texts, ssr \in BOOLEAN :
       TransformCall(id, code, ssr)
  \/ \E t \in BagToSet(inflight) : TransformResume(t)
  \/ \E w \in writes : WriteOpen(w)
  \/ \E w \in writes : WriteData(w)
  \/ \E w \in writes, fatal \in BOOLEAN : WriteFail(w, fatal)
  \/ \E c \in [root : Roots, swcVersion : SwcVersions] : Restart(c)

Spec == Init /\ [][Next]_vars

\* ------------------------------------------------------------ one long-lived process
\* A dev server that stays up: the host resolves its configuration again (a
\* server restart inside the process) between the transform calls, for two files
\* whose names differ only in '/' and '|'.
MaxServeTransforms == 3

ServePaths ==
  {<<"a", "/", "b", ".", "t", "s", "x">>, <<"a", "|", "b", ".", "t", "s", "x">>}

ServeIds == {IdOf(<<"/", "p">>, rel) : rel \in ServePaths}

NextServe ==
  \/ ConfigResolved
  \/ \E r \in reads : RestoreRead(r)
  \/ \E id \in ServeIds, ssr \in BOOLEAN :
       TransformCallUpTo(MaxServeTransforms, id, <<"comp">>, ssr)
  \/ \E t \in BagToSet(inflight) : TransformResume(t)
  \/ \E w \in writes : WriteOpen(w)
  \/ \E w \in writes : WriteData(w)

SpecServe == Init /\ [][NextServe]_vars

\* ------------------------------------------------------------ the settle step alone
\* all sequences of 1..n elements of S
RECURSIVE SeqsUpTo(_, _)
SeqsUpTo(S, n) ==
  IF n = 0 THEN {}
  ELSE LET shorter == SeqsUpTo(S, n - 1)
       IN {<<x>> : x \in S} \cup shorter \cup {q \o <<x>> : q \in shorter, x \in S}

InjectTexts == SeqsUpTo(LineKinds, MaxLines)

\* a process that created its cache directory and has one call suspended on the
\* transformer
Suspended(id, code, ssr) ==
  /\ cfg = [root |-> <<"/", "p">>, swcVersion |-> "1.3.42"]
  /\ root = cfg.root
  /\ cache = EmptyMap
  /\ init = "done"
  /\ ready = TRUE
  /\ gen = 1
  /\ reads = {}
  /\ inflight = SetToBag({[id |-> id, code |-> code, ssr |-> ssr,
                           key |-> FileCachePath(cfg.root, id, ssr)]})
  /\ writes = {}
  /\ dir = [exists |-> TRUE,
            files |-> WithMetadata(EmptyMap, CompositeVersion(cfg.swcVersion))]
  /\ nT = 1
  /\ restarts = 0
  /\ ret = HookRet("config-created")
  /\ producers = EmptyMap

InitInject ==
  \E id \in {i \in MoreIds(<<"/", "p">>) : ~Skipped(i)}, code \in InjectTexts,
     ssr \in BOOLEAN : Suspended(id, code, ssr)

NextInject == \E t \in BagToSet(inflight) : TransformResume(t)

\* the pipeline after the transformer, over all short texts and all handled ids
SpecInject == InitInject /\ [][NextInject]_vars

\* pieces of diagnostic messages
Fragments ==
  { FrameDelim,
    <<":", "1", "2", ":", "5", "]">>,
    <<":", "3", ":", "4", "]">>,
    <<":", "7">>,
    <<"U+256D", "U+2500">>,
    <<"]">>,
    <<"1">>,
    <<"x">> }

RECURSIVE MessagesUpTo(_)
MessagesUpTo(n) ==
  IF n = 0 THEN {<<>>}
  ELSE LET shorter == MessagesUpTo(n - 1)
       IN shorter \cup {m \o f : m \in shorter, f \in Fragments}

Messages == MessagesUpTo(MaxFrags)

InitErr ==
  \E ssr \in BOOLEAN :
    Suspended(IdOf(<<"/", "p">>, <<"a", "/", "b", ".", "t", "s", "x">>), <<"bad">>, ssr)

\* the transformer rejects with any of the messages
NextErr ==
  \E t \in BagToSet(inflight), m \in Messages :
    Settle(t, [ok |-> FALSE, message |-> m])

\* the catch block, over the diagnostic messages
SpecErr == InitErr /\ [][NextErr]_vars

\* ------------------------------------------------------------ claims
\* what the pipeline returns when it compiles code for id (no cache involved)
CompileOut(id, code, ssr) == Finish(Swc(code, id, Parser(id), ~ssr), id, ssr)

Compiles(id, code, ssr) == Swc(code, id, Parser(id), ~ssr).ok

\* the call whose result ret holds, as a suspended call would be recorded
RetCall == [id |-> ret.id, code |-> ret.code, ssr |-> ret.ssr, key |-> ret.key]

\* C1: within one session, once Transform(file, S, target) has returned a compiled
\* result, a later Transform(file, S, target) with the same text does not invoke
\* the transformer again. Stated for the call that follows at once: the step after
\* a compiled return never suspends the same call on the transformer.
C1Claim ==
  [][(ret.kind = "compiled" /\ nT' = nT + 1)
       => CopiesIn(RetCall, inflight') <= CopiesIn(RetCall, inflight)]_vars

\* C2: a cache hit is returned only when the stored input equals the current
\* source text, and what it returns is an output compiled from that very text.
C2Thm ==
  ret.kind = "hit" =>
    /\ ret.key \in DOMAIN cache
    /\ cache[ret.key].input = ret.code
    /\ \E id \in AllIds :
         /\ Compiles(id, ret.code, ret.ssr)
         /\ ret.out = CompileOut(id, ret.code, ret.ssr)

\* C2 witness: with an entry for text S1 in the cache, a call with another text S2
\* of the same key was compiled rather than served from the cache.
C2Witness ==
  /\ ret.kind = "compiled"
  /\ ret.key \in DOMAIN cache
  /\ cache[ret.key].input # ret.code

\* C3: after a process has restored the cache under the same composite version,
\* every entry file that holds a whole entry is in the cache under the key that
\* transform computes for its file and target, so that Transform of the stored
\* input is a hit returning the stored {code, map}.
C3Thm ==
  (ret.kind = "config-restored" /\ gen = 1) =>
    \A id \in Ids(root), ssr \in BOOLEAN :
      LET k == FileCachePath(root, id, ssr)
      IN (k \in DOMAIN dir.files /\ WellFormed(dir.files[k].data)) =>
           LET e == ParseEntry(dir.files[k].data)
           IN /\ IsHit(cache, k, e.input)
              /\ cache[k].code = e.code
              /\ cache[k].map = e.map

\* C3 witness: a later process has restored an entry written by an earlier one.
C3Witness ==
  /\ ret.kind = "config-restored"
  /\ gen = 1
  /\ restarts >= 1
  /\ \E id \in Ids(root), ssr \in BOOLEAN :
       LET k == FileCachePath(root, id, ssr)
       IN k \in DOMAIN dir.files /\ WellFormed(dir.files[k].data) /\ k \in DOMAIN cache

\* C4: initializing under a composite version other than the recorded one
\* completes without error, leaves no entry file on disk and no entry in the
\* cache; the directory holds nothing but the fresh metadata record.
C4Thm ==
  ret.kind = "config-wiped" =>
    /\ init = "done"
    /\ EntryNames(dir.files) = {}
    /\ DOMAIN dir.files = {MetadataName}
    /\ MetadataVersion(dir.files[MetadataName]) = CompositeVersion(cfg.swcVersion)
    /\ DOMAIN cache = {}

\* C4 witness: an initialization under another version discarded entry files.
C4Witness == ret.kind = "config-wiped" /\ ret.lost > 0

\* the files the pipeline handles, stated from the claim: not vendored, and of
\* one of the three kinds
C5Eligible(id) ==
  /\ ~Includes(id, NodeModules)
  /\ \/ EndsWith(id, <<".", "t", "s", "x">>)
     \/ EndsWith(id, <<".", "t", "s">>)
     \/ EndsWith(id, <<".", "j", "s", "x">>)

\* the keys of the two targets, over the handled files of every root
C5Keys(ssr) ==
  UNION {{FileCachePath(rt, id, ssr) : id \in {i \in MoreIds(rt) : C5Eligible(i)}} :
           rt \in Roots}

C5NormalKeys == C5Keys(FALSE)

C5ServerKeys == C5Keys(TRUE)

\* C5: no key of a normal-target compile is the key of a server-target compile,
\* every entry file has been written by compiles of one target only, and a hit
\* is served from an entry of the call's own target.
C5Thm ==
  /\ C5NormalKeys \cap C5ServerKeys = {}
  /\ \A t \in BagToSet(inflight) :
       t.key \in (IF t.ssr THEN C5ServerKeys ELSE C5NormalKeys)
  /\ \A k \in DOMAIN producers : Cardinality(producers[k]) <= 1
  /\ \A w \in writes : w.key \in DOMAIN producers => producers[w.key] = {w.ssr}
  /\ ret.kind = "hit" => producers[ret.key] = {ret.ssr}

\* C5 witness: entry files of both targets have been written.
C5Witness ==
  \E k1 \in DOMAIN producers, k2 \in DOMAIN producers :
    producers[k1] = {TRUE} /\ producers[k2] = {FALSE}

\* C6: the output of a server-target Transform never carries the live-reload
\* wrapper.
C6Claim ==
  (ret.kind \in {"compiled", "hit"} /\ ret.ssr) => ~Instrumented(ret.out.code)

\* where the lines of the compiled code start in the wrapped output: the numbers
\* p of lines before them
LinesBefore(wrapped, orig) ==
  {p \in 0..(Len(wrapped) - Len(orig)) :
     \A j \in 1..Len(orig) :
       wrapped[p + j] = IF j = 1 THEN <<"  ">> \o orig[1] ELSE orig[j]}

RECURSIVE LeadingSeparators(_)
LeadingSeparators(m) ==
  IF m = <<>> THEN 0
  ELSE IF m[1] # ";" THEN 0
  ELSE 1 + LeadingSeparators(Tail(m))

\* C7: when the wrapper is injected, the number of empty segments put in front of
\* the mappings is the number of lines the wrapper puts before the compiled code:
\* the lines of the wrapper before the code are unmapped, and every line of the
\* compiled code resolves to the same source line as before the injection.
C7Thm ==
  (ret.kind = "compiled" /\ Instrumented(ret.out.code)) =>
    LET r == SwcResult(RetCall)
        orig == ParseMap(r.map)
        before == LinesBefore(ret.out.code, r.code)
    IN /\ Cardinality(before) = 1
       /\ \A p \in before :
            /\ LeadingSeparators(ret.out.map.mappings)
                 = LeadingSeparators(orig.mappings) + p
            /\ \A i \in 1..p : Resolve(ret.out.map, i) = <<>>
            /\ \A j \in 1..Len(r.code) :
                 Resolve(ret.out.map, p + j) = Resolve(orig, j)

\* C7 witness: a compiled output of several lines was wrapped.
C7Witness ==
  /\ ret.kind = "compiled"
  /\ Instrumented(ret.out.code)
  /\ Len(SwcResult(RetCall).code) >= 2
  /\ Resolve(ParseMap(SwcResult(RetCall).map), 2) # <<>>

\* the occurrences <<i, n1, n2>> of ':<line>:<column>]' in m: a colon at i, n1
\* digits, a colon, n2 digits, a closing bracket
C8Occurrences(m) ==
  {o \in (1..Len(m)) \X (1..Len(m)) \X (1..Len(m)) :
     /\ o[1] + o[2] + o[3] + 2 <= Len(m)
     /\ m[o[1]] = ":"
     /\ \A x \in (o[1] + 1)..(o[1] + o[2]) : m[x] \in Digits
     /\ m[o[1] + o[2] + 1] = ":"
     /\ \A x \in (o[1] + o[2] + 2)..(o[1] + o[2] + o[3] + 1) : m[x] \in Digits
     /\ m[o[1] + o[2] + o[3] + 2] = "]"}

\* the occurrences that follow a delimiter
C8Framed(m) ==
  {o \in C8Occurrences(m) :
     \E d \in 1..o[1] : d + 2 <= Len(m) /\ SubSeq(m, d, d + 2) = FrameDelim}

\* C8: when the transformer fails, the error is rethrown; it carries the line and
\* column of a ':<line>:<column>]' that follows the frame delimiter in its message,
\* and no line or column when the message holds no delimiter or no such pattern
\* after it.
C8Thm ==
  /\ ret.kind # "compiled"
  /\ writes = {}
  /\ BagCardinality(inflight) = 0 => ret.kind = "error"
  /\ ret.kind = "error" =>
       LET m == ret.err.message
       IN IF C8Framed(m) = {}
          THEN ret.err.line = <<>> /\ ret.err.column = <<>>
          ELSE \E o \in C8Framed(m) :
                 /\ ret.err.line = SubSeq(m, o[1] + 1, o[1] + o[2])
                 /\ ret.err.column = SubSeq(m, o[1] + o[2] + 2, o[1] + o[2] + o[3] + 1)

\* C8 witness: a message with the delimiter followed by ':12:5]' gave line 12,
\* column 5.
C8Witness ==
  /\ ret.kind = "error"
  /\ ret.err.line = <<"1", "2">>
  /\ ret.err.column = <<"5">>

\* C9: a call for a vendored file or for a file of another kind returns nothing,
\* never reaches the transformer, and changes neither the cache nor the disk.
C9Thm ==
  [][/\ \A t \in BagToSet(inflight') : C5Eligible(t.id)
     /\ ret'.kind \in {"hit", "compiled", "error"} => C5Eligible(ret'.id)
     /\ (nT' = nT + 1 /\ inflight' = inflight /\ ret'.kind = "skip")
          => /\ ~C5Eligible(ret'.id)
             /\ UNCHANGED <<cache, dir, writes>>]_vars

\* C9 witness: a call was skipped while the cache and the disk held entries.
C9Witness ==
  /\ ret.kind = "skip"
  /\ DOMAIN cache # {}
  /\ EntryNames(dir.files) # {}

\* C10: a persistence failure never fails a transform. Stated for the calls in
\* flight when the write fails: none of them is ended by it.
C10Claim == ret.kind = "unhandled-rejection" => ret.lost = 0

\* C11: the in-memory cache is at least as current as the disk: when a compile
\* returns, the in-memory mapping already holds the entry it stored under its key.
C11Claim ==
  [][(ret' # ret /\ ret'.kind = "compiled")
       => /\ ret'.key \in DOMAIN cache'
          /\ cache'[ret'.key] = [input |-> ret'.code, code |-> ret'.out.code,
                                 map |-> ret'.out.map]]_vars

\* C12: the restore is a barrier: initialization neither succeeds nor fails
\* while one of its reads is still in flight, so once it has finished or failed
\* no read is left that could still insert into the in-memory cache.
C12Claim == init \in {"done", "failed"} => reads = {}

\* C13: a restore that fails on one entry file fails as a whole: no transform of
\* the process whose restore failed is served a hit from what the other reads
\* put into the in-memory cache.
C13Claim == init = "failed" => ret.kind # "hit"

\* C14: initialization runs once per process: a configResolved call after the
\* first does no version check, no restore or wipe and no metadata write, and
\* starts no read that would populate the in-memory cache from disk again.
C14Claim ==
  [][(gen >= 1 /\ gen' = gen + 1)
       => /\ ret'.kind = "config-noop"
          /\ UNCHANGED <<dir, cache, reads, init>>]_vars

C15Claim ==
  \A t1, t2 \in BagToSet(inflight) :
    (t1.id # t2.id /\ t1.ssr = t2.ssr) => t1.key # t2.key

\* C17: writes of one key from calls in flight together are neither merged nor
\* ordered, and whenever one of them completes, the entry file holds exactly the
\* entry of that write: the whole {input, code, map} of one compile.
C17Claim ==
  [][\A w \in writes :
       (w.phase = "write" /\ w \notin writes' /\ restarts' = restarts /\ dir' # dir)
         => /\ dir'.files[w.key].data = w.data
            /\ WellFormed(dir'.files[w.key].data)]_vars

\* C18: a process that is stopped with writes pending or half done costs later
\* sessions only a cache miss: the first initialization of the process started
\* after it does not fail.
C18Claim ==
  [][(restarts >= 1 /\ gen = 1 /\ ret.kind = "start") => init' # "failed"]_vars

\* C19: a call whose transformer invocation fails throws that error (it is not
\* swallowed and no output is returned) and leaves the cache as it was: no write
\* is started, the in-memory mapping and the entry files are untouched.
C19Thm ==
  [][\A t \in BagToSet(inflight) :
       (/\ CopiesIn(t, inflight') < CopiesIn(t, inflight)
        /\ restarts' = restarts
        /\ ~Compiles(t.id, t.code, t.ssr))
         => /\ ret'.kind = "error"
            /\ <<ret'.id, ret'.code, ret'.ssr>> = <<t.id, t.code, t.ssr>>
            /\ ret'.out = NoOut
            /\ ret'.err.message = Swc(t.code, t.id, Parser(t.id), ~t.ssr).message
            /\ UNCHANGED <<cache, writes, dir>>]_vars

\* C19 witness: a call failed for a key that has an entry in memory and a whole
\* entry file on disk.
C19Witness ==
  /\ ret.kind = "error"
  /\ ret.key \in DOMAIN cache
  /\ ret.key \in DOMAIN dir.files
  /\ WellFormed(dir.files[ret.key].data)

\* C20: the cache is transparent: a hit returns what compiling the same file, text
\* and target in the current session would return, the module id in the wrapper
\* and in the map included.
C20Claim == ret.kind = "hit" => ret.out = CompileOut(ret.id, ret.code, ret.ssr)

====
